---------------------------- MODULE Spec2Model ----------------------------
(***************************************************************************)
(* A model of the catalog compositor (tools/generate-catalog.mjs) and of   *)
(* replaceFeatureIds (feature-ids), written from the source.               *)
(*                                                                         *)
(* Text is modelled in two ways.  File and directory names, and the value  *)
(* of a viewBox attribute, are sequences of one-character strings.  The    *)
(* markup of a fragment is a sequence of lexical tokens (an open tag, a    *)
(* close tag, a comment opener, ...), each standing for the characters the *)
(* corresponding regular expression of the source matches.                 *)
(* JavaScript numbers are modelled as exact rationals [n, d], d > 0.       *)
(***************************************************************************)
EXTENDS Integers, Sequences, FiniteSets, TLC

VARIABLES
    pc,          \* position of main(): "scan", "category", "files", ...
    rootDir,     \* listing of svgRoot as readdirSync returns it
    dirs,        \* category name -> listing of that directory
    categories,  \* main: const categories
    ci,          \* main: position of the for..of loop over categories
    files,       \* main: const files of the current category
    idx,         \* main: idx of files.forEach
    y,           \* main: let y
    chunks,      \* main: const chunks
    svgFile,     \* what is on disk at outputPath
    pngFile,     \* what is on disk at pngPath
    pngOutcome,  \* how tryWritePng ended: "none" while not called
    err,         \* which I/O operation threw, "none" if none did
    exitCode,    \* the code the process ends with (read when pc = "exited")
    arg,         \* argument of the pure function applied
    res          \* results of the pure function applied

vars == <<pc, rootDir, dirs, categories, ci, files, idx, y, chunks, svgFile,
          pngFile, pngOutcome, err, exitCode, arg, res>>

mainVars == <<pc, rootDir, dirs, categories, ci, files, idx, y, chunks,
              svgFile, pngFile, pngOutcome, err, exitCode>>

-----------------------------------------------------------------------------
(* Bounds of the model *)

MaxFiles == 6
MaxRoot == 3
MaxListing == 2
MaxAttrLen == 7
MaxTokens == 3
MaxDim == 4
MaxOff == 1

-----------------------------------------------------------------------------
(* Program constants *)

padding == 24
cols == 5
thumbWidth == 180
thumbHeight == 240
labelHeight == 18
colWidth == 200
blockHeight == thumbHeight + labelHeight + 12
categoryGap == 32
titleRowHeight == 22
pngWidth == 2000

-----------------------------------------------------------------------------
(* Sequences *)

RECURSIVE SeqsUpTo(_, _)
SeqsUpTo(S, n) ==
    IF n = 0 THEN {<<>>}
    ELSE LET shorter == SeqsUpTo(S, n - 1)
         IN  shorter \cup {Append(s, x) : s \in {t \in shorter : Len(t) = n - 1}, x \in S}

NoRepeat(s) == \A i, j \in 1..Len(s) : i # j => s[i] # s[j]

ListingsUpTo(S, n) == {s \in SeqsUpTo(S, n) : NoRepeat(s)}

Range(s) == {s[i] : i \in 1..Len(s)}

startsWith(s, p) == Len(s) >= Len(p) /\ SubSeq(s, 1, Len(p)) = p

endsWith(s, p) == Len(s) >= Len(p) /\ SubSeq(s, Len(s) - Len(p) + 1, Len(s)) = p


-----------------------------------------------------------------------------
(* Characters and names *)

Digits == <<"0", "1", "2", "3", "4", "5", "6", "7", "8", "9">>

IsDigit(c) == c \in Range(Digits)

DigitValue(c) == (CHOOSE i \in 1..10 : Digits[i] = c) - 1

\* UTF-16 code unit of the characters the model uses.
CodeUnit(c) ==
    CASE c = " " -> 32
      [] c = "," -> 44
      [] c = "." -> 46
      [] IsDigit(c) -> 48 + DigitValue(c)
      [] c = "a" -> 97
      [] c = "b" -> 98
      [] c = "c" -> 99
      [] c = "e" -> 101
      [] c = "g" -> 103
      [] c = "h" -> 104
      [] c = "m" -> 109
      [] c = "n" -> 110
      [] c = "s" -> 115
      [] c = "t" -> 116
      [] c = "v" -> 118
      [] c = "x" -> 120

RECURSIVE Decimal(_)
Decimal(n) ==
    IF n < 10 THEN <<Digits[n + 1]>>
    ELSE Decimal(n \div 10) \o <<Digits[(n % 10) + 1]>>

svgExt == <<".", "s", "v", "g">>

\* Array.prototype.sort() without a comparator: strings by code units.
RECURSIVE codeUnitLess(_, _)
codeUnitLess(a, b) ==
    IF b = <<>> THEN FALSE
    ELSE IF a = <<>> THEN TRUE
    ELSE IF CodeUnit(Head(a)) # CodeUnit(Head(b))
         THEN CodeUnit(Head(a)) < CodeUnit(Head(b))
         ELSE codeUnitLess(Tail(a), Tail(b))

RECURSIVE DigitRun(_)
DigitRun(s) ==
    IF s = <<>> \/ ~IsDigit(Head(s)) THEN <<>>
    ELSE <<Head(s)>> \o DigitRun(Tail(s))

RECURSIVE NumVal(_)
NumVal(run) ==
    IF run = <<>> THEN 0
    ELSE 10 * NumVal(SubSeq(run, 1, Len(run) - 1)) + DigitValue(run[Len(run)])

\* a.localeCompare(b, undefined, { numeric: true }): -1, 0 or 1.  A run of
\* digits is compared by its value; other characters by collation weight,
\* which for the characters of the model (".", digits, lowercase letters)
\* is the order of their code units.
RECURSIVE localeCompareNumeric(_, _)
localeCompareNumeric(a, b) ==
    IF a = <<>> /\ b = <<>> THEN 0
    ELSE IF a = <<>> THEN -1
    ELSE IF b = <<>> THEN 1
    ELSE IF IsDigit(Head(a)) /\ IsDigit(Head(b))
         THEN LET ra == DigitRun(a)
                  rb == DigitRun(b)
              IN  IF NumVal(ra) < NumVal(rb) THEN -1
                  ELSE IF NumVal(ra) > NumVal(rb) THEN 1
                  ELSE localeCompareNumeric(SubSeq(a, Len(ra) + 1, Len(a)),
                                            SubSeq(b, Len(rb) + 1, Len(b)))
         ELSE IF CodeUnit(Head(a)) < CodeUnit(Head(b)) THEN -1
         ELSE IF CodeUnit(Head(a)) > CodeUnit(Head(b)) THEN 1
         ELSE localeCompareNumeric(Tail(a), Tail(b))

\* The sorts are stable: an element is inserted after the elements that do
\* not compare greater than it.
RECURSIVE insertDefault(_, _)
insertDefault(sorted, x) ==
    IF sorted = <<>> THEN <<x>>
    ELSE IF codeUnitLess(x, Head(sorted)) THEN <<x>> \o sorted
    ELSE <<Head(sorted)>> \o insertDefault(Tail(sorted), x)

RECURSIVE sortDefault(_)
sortDefault(s) ==
    IF s = <<>> THEN <<>>
    ELSE insertDefault(sortDefault(SubSeq(s, 1, Len(s) - 1)), s[Len(s)])

filesLessCodeUnits(a, b) == codeUnitLess(a, b)

\* the comparator of line 82
filesLess(a, b) == localeCompareNumeric(a, b) < 0

RECURSIVE insertNumeric(_, _)
insertNumeric(sorted, x) ==
    IF sorted = <<>> THEN <<x>>
    ELSE IF filesLess(x, Head(sorted)) THEN <<x>> \o sorted
    ELSE <<Head(sorted)>> \o insertNumeric(Tail(sorted), x)

RECURSIVE sortNumeric(_)
sortNumeric(s) ==
    IF s = <<>> THEN <<>>
    ELSE insertNumeric(sortNumeric(SubSeq(s, 1, Len(s) - 1)), s[Len(s)])

-----------------------------------------------------------------------------
(* Fragment markup as a sequence of tokens.                                *)
(*   "xml"      <?xml ... ?>            "doctype"  <!DOCTYPE ... >         *)
(*   "copen"    <!--                    "cclose"   -->                     *)
(*   "mopen"    <metadata>              "mclose"   </metadata>             *)
(*   "nsopen"   <sodipodi:namedview>    "nsclose"  </sodipodi:namedview>   *)
(*   "nsself"   <inkscape:grid/>                                           *)
(*   "svgopen"  <svg ...>               "svgclose" </svg>                  *)
(*   "gattr"    <g inkscape:label="a">  "g"        <g>                     *)
(*   "path"     <path d="..."/>                                            *)

Tokens == {"xml", "doctype", "copen", "cclose", "mopen", "mclose", "nsopen",
           "nsclose", "nsself", "svgopen", "svgclose", "gattr", "g", "path"}

\* The least index >= from of a token of s in set T, 0 if there is none.
indexOf(s, T, from) ==
    IF \E i \in from..Len(s) : s[i] \in T
    THEN CHOOSE i \in from..Len(s) :
             s[i] \in T /\ \A j \in from..(i - 1) : s[j] \notin T
    ELSE 0

\* String.prototype.replace(/open[\s\S]*?close/g, ""): every span from an
\* opening token to the nearest closing token after it, left to right.
RECURSIVE removeSpans(_, _, _)
removeSpans(s, Open, Close) ==
    LET i == indexOf(s, Open, 1)
        j == IF i = 0 THEN 0 ELSE indexOf(s, Close, i + 1)
    IN  IF i = 0 \/ j = 0 THEN s
        ELSE SubSeq(s, 1, i - 1) \o removeSpans(SubSeq(s, j + 1, Len(s)), Open, Close)

\* replace(/tag/g, ""): every token of T.
removeAll(s, T) == SelectSeq(s, LAMBDA t : t \notin T)

\* replace(/tag/, "") without the g flag: the first token of T only.
removeFirst(s, T) ==
    LET i == indexOf(s, T, 1)
    IN  IF i = 0 THEN s ELSE SubSeq(s, 1, i - 1) \o SubSeq(s, i + 1, Len(s))

stripProlog(svg) ==
    removeAll(removeSpans(removeAll(svg, {"xml"}), {"copen"}, {"cclose"}), {"doctype"})

\* replace(/\s+(?:inkscape|sodipodi):[^=\s]+="[^"]*"/gi, "")
stripNsAttributes(svg) == [i \in 1..Len(svg) |-> IF svg[i] = "gattr" THEN "g" ELSE svg[i]]

sanitize(svg) ==
    stripNsAttributes(
        removeAll(
            removeSpans(removeSpans(svg, {"mopen"}, {"mclose"}),
                        {"nsopen", "nsself"}, {"nsclose"}),
            {"nsopen", "nsself"}))

extractInner(svg) == removeFirst(removeFirst(svg, {"svgopen"}), {"svgclose"})

\* main, lines 91 and 93: the inner markup embedded in the catalog.
innerMarkup(body) == extractInner(sanitize(stripProlog(body)))

-----------------------------------------------------------------------------
(* extractViewBox.  A JavaScript value is [k |-> "num", v |-> n],          *)
(* [k |-> "NaN", v |-> 0] or [k |-> "undefined", v |-> 0].                 *)

Num(n) == [k |-> "num", v |-> n]
NaN == [k |-> "NaN", v |-> 0]
Undefined == [k |-> "undefined", v |-> 0]

IsSpace(c) == c = " "

RECURSIVE dropSpaces(_)
dropSpaces(s) ==
    IF s = <<>> \/ ~IsSpace(Head(s)) THEN s ELSE dropSpaces(Tail(s))

\* String.prototype.split(/\s+/): the pieces between runs of white space; a
\* leading or trailing run leaves an empty piece.
RECURSIVE splitWhitespace(_, _)
splitWhitespace(s, piece) ==
    IF s = <<>> THEN <<piece>>
    ELSE IF IsSpace(Head(s))
         THEN <<piece>> \o splitWhitespace(dropSpaces(s), <<>>)
         ELSE splitWhitespace(Tail(s), Append(piece, Head(s)))

\* parseFloat on a piece: the value of its longest prefix of digits, NaN if
\* it has none (the model's characters hold no sign, point or exponent).
parseFloat(piece) ==
    IF DigitRun(piece) = <<>> THEN NaN ELSE Num(NumVal(DigitRun(piece)))

defaultViewBox == [minX |-> Num(0), minY |-> Num(0), width |-> Num(400), height |-> Num(600)]

\* attr: [present |-> BOOLEAN, value |-> characters between the quotes].
\* /viewBox="([^"]+)"/i matches only a present, non-empty value.
extractViewBox(attr) ==
    IF ~attr.present \/ attr.value = <<>> THEN defaultViewBox
    ELSE LET parts == splitWhitespace(attr.value, <<>>)
             at(i) == IF i <= Len(parts) THEN parseFloat(parts[i]) ELSE Undefined
         IN  [minX |-> at(1), minY |-> at(2), width |-> at(3), height |-> at(4)]

-----------------------------------------------------------------------------
(* The fit transform of main, lines 99-103, in exact rational arithmetic.  *)

RECURSIVE Gcd(_, _)
Gcd(a, b) == IF b = 0 THEN a ELSE Gcd(b, a % b)

Abs(n) == IF n < 0 THEN -n ELSE n

\* The rational n/d (d > 0) in lowest terms.
Rat(n, d) == LET g == Gcd(Abs(n), d) IN [n |-> n \div g, d |-> d \div g]

ratInt(n) == [n |-> n, d |-> 1]
ratAdd(a, b) == Rat(a.n * b.d + b.n * a.d, a.d * b.d)
ratSub(a, b) == Rat(a.n * b.d - b.n * a.d, a.d * b.d)
ratMul(a, b) == Rat(a.n * b.n, a.d * b.d)
\* a / b for b > 0
ratDiv(a, b) == Rat(a.n * b.d, a.d * b.n)
ratLe(a, b) == a.n * b.d <= b.n * a.d
mathMin(a, b) == IF ratLe(a, b) THEN a ELSE b

innerW == thumbWidth - 16
innerH == thumbHeight - 32

IsBox(vb) ==
    /\ \A f \in {"minX", "minY", "width", "height"} : vb[f].k = "num"
    /\ vb.width.v > 0
    /\ vb.height.v > 0

fitScale(vb) ==
    mathMin(ratDiv(ratInt(innerW), ratInt(vb.width.v)), ratDiv(ratInt(innerH), ratInt(vb.height.v)))

fitTxNotHalved(vb) ==
    ratSub(ratAdd(ratInt(8), ratSub(ratInt(innerW), ratMul(ratInt(vb.width.v), fitScale(vb)))),
           ratMul(ratInt(vb.minX.v), fitScale(vb)))

fitTx(vb) ==
    ratSub(ratAdd(ratInt(8), ratDiv(ratSub(ratInt(innerW), ratMul(ratInt(vb.width.v), fitScale(vb))), ratInt(2))),
           ratMul(ratInt(vb.minX.v), fitScale(vb)))

fitTy(vb) ==
    ratSub(ratAdd(ratInt(8), ratDiv(ratSub(ratInt(innerH), ratMul(ratInt(vb.height.v), fitScale(vb))), ratInt(2))),
           ratMul(ratInt(vb.minY.v), fitScale(vb)))

\* A view box with a component that is not a number, or with no area, gives
\* transform values that are NaN or infinite: "degenerate", not computed.
fitTransform(vb) ==
    IF IsBox(vb)
    THEN [scale |-> fitScale(vb), tx |-> fitTx(vb), ty |-> fitTy(vb)]
    ELSE [scale |-> "degenerate", tx |-> "degenerate", ty |-> "degenerate"]

-----------------------------------------------------------------------------
(* The file system main() reads *)

name_e == <<"e">>
name_m == <<"m">>
name_n == <<"n">>
name_hidden == <<".", "h">>
name_catalog == <<"c">> \o svgExt
name_txt == <<"n", ".", "t", "x", "t">>

Entry(name, isDir) == [name |-> name, isDir |-> isDir]

\* a<i>.svg
fragmentName(i) == <<"a">> \o Decimal(i) \o svgExt

\* The text of a fragment file, by the number in its name: a viewBox
\* attribute and the markup.
attrOf(value) == [present |-> TRUE, value |-> value]
rawText(name) ==
    LET v == NumVal(DigitRun(Tail(name))) % 4
    IN  CASE v = 1 -> [viewBox |-> attrOf(<<"1", "0", " ", "0", " ", "1", "0", "0", " ", "1", "0", "0">>),
                       body |-> <<"svgopen", "path", "svgclose">>]
          [] v = 2 -> [viewBox |-> attrOf(<<"0", " ", "0", " ", "5", "0", " ", "2", "0", "0">>),
                       body |-> <<"xml", "svgopen", "mopen", "mclose", "gattr", "svgclose">>]
          [] v = 3 -> [viewBox |-> attrOf(<<"0", " ", "0", " ", "2", "0", "0", " ", "5", "0">>),
                       body |-> <<"copen", "cclose", "svgopen", "nsself", "path", "svgclose">>]
          [] v = 0 -> [viewBox |-> [present |-> FALSE, value |-> <<>>],
                       body |-> <<"svgopen", "path", "svgclose">>]

NoFile == [exists |-> FALSE]

-----------------------------------------------------------------------------
(* main() *)

isCategory(e) == ~startsWith(e.name, <<".">>) /\ e.isDir

isFragment(file) == endsWith(file, svgExt)

\* path.basename(file, ".svg")
basename(file) ==
    IF endsWith(file, svgExt) /\ Len(file) > Len(svgExt)
    THEN SubSeq(file, 1, Len(file) - Len(svgExt))
    ELSE file

\* Math.ceil(n / d), Math.floor(n / d) for n >= 0, d > 0
mathCeilDiv(n, d) == IF n % d = 0 THEN n \div d ELSE (n \div d) + 1
mathFloorDiv(n, d) == n \div d

titleChunk(category, yy) == [kind |-> "title", cat |-> category, x |-> padding, y |-> yy]

blockChunk(category, file, i, yy) ==
    LET raw == rawText(file)
        vb == extractViewBox(raw.viewBox)
        col == i % cols
        row == mathFloorDiv(i, cols)
        fit == fitTransform(vb)
    IN  [kind |-> "block", cat |-> category, id |-> basename(file),
         x |-> padding + col * colWidth, y |-> yy + row * blockHeight,
         scale |-> fit.scale, tx |-> fit.tx, ty |-> fit.ty,
         inner |-> innerMarkup(raw.body)]

categoryAdvanceNoGap(n) == mathCeilDiv(n, cols) * blockHeight

categoryAdvanceFloor(n) == mathFloorDiv(n, cols) * blockHeight + categoryGap

\* lines 116-117: what a category of n fragments adds to y after its title
categoryAdvance(n) == mathCeilDiv(n, cols) * blockHeight + categoryGap

\* lines 120-124
output(cs, yy) ==
    LET width == padding * 2 + cols * colWidth
        height == yy + padding
    IN  [exists |-> TRUE, width |-> width, height |-> height,
         viewBox |-> <<0, 0, width, height>>, chunks |-> cs]

\* Math.round(n / d) for n >= 0, d > 0
mathRound(n, d) == (2 * n + d) \div (2 * d)

pngResizeStretch(doc) == [exists |-> TRUE, width |-> pngWidth, height |-> doc.height]

\* sharp(...).resize({ width: 2000, height: null, fit: "contain" }): the
\* width is set and the height follows in proportion.
pngResize(doc) ==
    [exists |-> TRUE, width |-> pngWidth,
     height |-> mathRound(doc.height * pngWidth, doc.width)]

pureIdle == arg = <<>> /\ res = <<>>

ScanRoot ==
    /\ pc = "scan"
    /\ categories' = sortDefault([i \in 1..Len(SelectSeq(rootDir, isCategory)) |->
                                     SelectSeq(rootDir, isCategory)[i].name])
    /\ y' = padding
    /\ chunks' = <<>>
    /\ ci' = 1
    /\ pc' = "category"
    /\ UNCHANGED <<rootDir, dirs, files, idx, svgFile, pngFile, pngOutcome, err, exitCode, arg, res>>

\* readdirSync(svgRoot) or statSync throws
ScanRootFails ==
    /\ pc = "scan"
    /\ err' = "root"
    /\ pc' = "fatal"
    /\ UNCHANGED <<rootDir, dirs, categories, ci, files, idx, y, chunks, svgFile, pngFile,
                   pngOutcome, exitCode, arg, res>>

BeginCategory ==
    /\ pc = "category"
    /\ ci <= Len(categories)
    /\ files' = sortNumeric(SelectSeq(dirs[categories[ci]], isFragment))
    /\ chunks' = Append(chunks, titleChunk(categories[ci], y))
    /\ y' = y + titleRowHeight
    /\ idx' = 0
    /\ pc' = "files"
    /\ UNCHANGED <<rootDir, dirs, categories, ci, svgFile, pngFile, pngOutcome, err, exitCode, arg, res>>

\* readdirSync(dir) throws
ReadDirFails ==
    /\ pc = "category"
    /\ ci <= Len(categories)
    /\ err' = "dir"
    /\ pc' = "fatal"
    /\ UNCHANGED <<rootDir, dirs, categories, ci, files, idx, y, chunks, svgFile, pngFile,
                   pngOutcome, exitCode, arg, res>>

PlaceFragment ==
    /\ pc = "files"
    /\ idx < Len(files)
    /\ chunks' = Append(chunks, blockChunk(categories[ci], files[idx + 1], idx, y))
    /\ idx' = idx + 1
    /\ UNCHANGED <<pc, rootDir, dirs, categories, ci, files, y, svgFile, pngFile, pngOutcome,
                   err, exitCode, arg, res>>

\* readFileSync(path.join(dir, file)) throws
ReadFileFails ==
    /\ pc = "files"
    /\ idx < Len(files)
    /\ err' = "file"
    /\ pc' = "fatal"
    /\ UNCHANGED <<rootDir, dirs, categories, ci, files, idx, y, chunks, svgFile, pngFile,
                   pngOutcome, exitCode, arg, res>>

EndCategory ==
    /\ pc = "files"
    /\ idx = Len(files)
    /\ y' = y + categoryAdvance(Len(files))
    /\ ci' = ci + 1
    /\ pc' = "category"
    /\ UNCHANGED <<rootDir, dirs, categories, files, idx, chunks, svgFile, pngFile, pngOutcome,
                   err, exitCode, arg, res>>

WriteOutput ==
    /\ pc = "category"
    /\ ci > Len(categories)
    /\ svgFile' = output(chunks, y)
    /\ pc' = "png"
    /\ UNCHANGED <<rootDir, dirs, categories, ci, files, idx, y, chunks, pngFile, pngOutcome,
                   err, exitCode, arg, res>>

\* writeFileSync throws
WriteFails ==
    /\ pc = "category"
    /\ ci > Len(categories)
    /\ err' = "write"
    /\ pc' = "fatal"
    /\ UNCHANGED <<rootDir, dirs, categories, ci, files, idx, y, chunks, svgFile, pngFile,
                   pngOutcome, exitCode, arg, res>>

PngOutcomes == {"ok", "missing", "threw"}

tryWritePngNoCatch ==
    /\ pc = "png"
    /\ \E outcome \in PngOutcomes :
        /\ pngOutcome' = outcome
        /\ pngFile' = IF outcome = "ok" THEN pngResize(svgFile) ELSE pngFile
        /\ pc' = IF outcome = "ok" THEN "returned" ELSE "fatal"
    /\ UNCHANGED <<rootDir, dirs, categories, ci, files, idx, y, chunks, svgFile, err,
                   exitCode, arg, res>>

\* "missing": import("sharp") rejects; "threw": reading or converting throws.
\* Either way the catch block warns and the function returns.
tryWritePng ==
    /\ pc = "png"
    /\ \E outcome \in PngOutcomes :
        /\ pngOutcome' = outcome
        /\ pngFile' = IF outcome = "ok" THEN pngResize(svgFile) ELSE pngFile
    /\ pc' = "returned"
    /\ UNCHANGED <<rootDir, dirs, categories, ci, files, idx, y, chunks, svgFile, err,
                   exitCode, arg, res>>

\* main() resolves: the process ends with code 0
Exit ==
    /\ pc = "returned"
    /\ exitCode' = 0
    /\ pc' = "exited"
    /\ UNCHANGED <<rootDir, dirs, categories, ci, files, idx, y, chunks, svgFile, pngFile,
                   pngOutcome, err, arg, res>>

fatalSwallowed ==
    /\ pc = "fatal"
    /\ exitCode' = 0
    /\ pc' = "exited"
    /\ UNCHANGED <<rootDir, dirs, categories, ci, files, idx, y, chunks, svgFile, pngFile,
                   pngOutcome, err, arg, res>>

\* main().catch: process.exit(1)
fatal ==
    /\ pc = "fatal"
    /\ exitCode' = 1
    /\ pc' = "exited"
    /\ UNCHANGED <<rootDir, dirs, categories, ci, files, idx, y, chunks, svgFile, pngFile,
                   pngOutcome, err, arg, res>>

Next ==
    \/ ScanRoot
    \/ ScanRootFails
    \/ BeginCategory
    \/ ReadDirFails
    \/ PlaceFragment
    \/ ReadFileFails
    \/ EndCategory
    \/ WriteOutput
    \/ WriteFails
    \/ tryWritePng
    \/ Exit
    \/ fatal

mainStart ==
    /\ pc = "scan"
    /\ categories = <<>>
    /\ ci = 0
    /\ files = <<>>
    /\ idx = 0
    /\ y = 0
    /\ chunks = <<>>
    /\ svgFile = NoFile
    /\ pngFile = NoFile
    /\ pngOutcome = "none"
    /\ err = "none"
    /\ exitCode = 0

\* Layout runs: up to three categories of 0..MaxFiles fragments each, listed
\* in descending order, beside a hidden directory, a plain file in the root
\* and a file that is no fragment in each category.
LayoutDirs == {name_e, name_m, name_n}

layoutListing(k) == [i \in 1..(k + 1) |-> IF i = 1 THEN name_txt ELSE fragmentName(k + 2 - i)]

Init ==
    /\ mainStart
    /\ pureIdle
    /\ \E count \in [LayoutDirs -> -1..MaxFiles] :
        /\ rootDir = SelectSeq(<<Entry(name_n, TRUE), Entry(name_hidden, TRUE), Entry(name_m, TRUE),
                                 Entry(name_catalog, FALSE), Entry(name_e, TRUE)>>,
                               LAMBDA e : e.name \in LayoutDirs => count[e.name] >= 0)
        /\ dirs = [d \in LayoutDirs \cup {name_hidden} |->
                      IF d \in LayoutDirs /\ count[d] >= 0 THEN layoutListing(count[d]) ELSE <<>>]

Spec == Init /\ [][Next]_vars

\* Ordering runs: the root and the two categories hold any listing, in any
\* order, of a few entries.
RootUniverse == {Entry(name_e, TRUE), Entry(name_m, TRUE), Entry(name_hidden, TRUE),
                 Entry(name_catalog, FALSE)}

FileUniverse == {fragmentName(2), fragmentName(10), name_txt}

InitOrder ==
    /\ mainStart
    /\ pureIdle
    /\ rootDir \in ListingsUpTo(RootUniverse, MaxRoot)
    /\ \E le, lm \in ListingsUpTo(FileUniverse, MaxListing) :
        dirs = [d \in {name_e, name_m, name_hidden} |->
                   IF d = name_e THEN le ELSE IF d = name_m THEN lm ELSE <<>>]

SpecOrder == InitOrder /\ [][Next]_vars

-----------------------------------------------------------------------------
(* What the claims speak of, read off the file system *)

CategoryNames == {e.name : e \in {x \in Range(rootDir) : x.isDir /\ Head(x.name) # "."}}

FragmentsOf(c) == {f \in Range(dirs[c]) : endsWith(f, svgExt)}

IsEmptyCategory(c) == FragmentsOf(c) = {}

TitleIndices == {i \in 1..Len(chunks) : chunks[i].kind = "title"}

BlockIndices == {i \in 1..Len(chunks) : chunks[i].kind = "block"}

\* The least number of rows of cols cells that hold n fragments.
LeastRows(n) == CHOOSE r \in 0..n : r * cols >= n /\ \A q \in 0..(r - 1) : q * cols < n

\* What the categories of S add to the vertical cursor.
RECURSIVE ExpectedAdvance(_)
ExpectedAdvance(S) ==
    IF S = {} THEN 0
    ELSE LET c == CHOOSE z \in S : TRUE
         IN  titleRowHeight + LeastRows(Cardinality(FragmentsOf(c))) * blockHeight + categoryGap
             + ExpectedAdvance(S \ {c})

RECURSIVE ExpectedBlocks(_)
ExpectedBlocks(S) ==
    IF S = {} THEN 0
    ELSE LET c == CHOOSE z \in S : TRUE
         IN  Cardinality(FragmentsOf(c)) + ExpectedBlocks(S \ {c})

-----------------------------------------------------------------------------
(* C1 *)

\* C1 as stated: a category with no fragments emits one title and no block,
\* and the next title (or the canvas height) sees y advanced by the
\* title-row height only.
C1_EmptyCategoryAdvancesTitleRowOnly ==
    \A i \in TitleIndices :
        IsEmptyCategory(chunks[i].cat) =>
            /\ \A j \in 1..Len(chunks) : chunks[j].cat = chunks[i].cat => j = i
            /\ i < Len(chunks) => chunks[i + 1].y = chunks[i].y + titleRowHeight
            /\ (i = Len(chunks) /\ svgFile.exists) =>
                   svgFile.height - padding = chunks[i].y + titleRowHeight

\* C1 amended: a category with no fragments emits one title and no block, and
\* the next title (or the canvas height) sees y advanced by the title-row
\* height plus the inter-category gap: no row height is added.
C1_EmptyCategoryAdvancesTitleRowAndGap ==
    \A i \in TitleIndices :
        IsEmptyCategory(chunks[i].cat) =>
            /\ \A j \in 1..Len(chunks) : chunks[j].cat = chunks[i].cat => j = i
            /\ i < Len(chunks) =>
                   /\ chunks[i + 1].kind = "title"
                   /\ chunks[i + 1].y = chunks[i].y + titleRowHeight + categoryGap
            /\ (i = Len(chunks) /\ svgFile.exists) =>
                   svgFile.height - padding = chunks[i].y + titleRowHeight + categoryGap

\* An empty category between two others, and the document written.
C1_Witness ==
    /\ svgFile.exists
    /\ \E i \in TitleIndices :
        /\ 1 < i
        /\ i < Len(chunks)
        /\ IsEmptyCategory(chunks[i].cat)
        /\ chunks[i + 1].kind = "title"

-----------------------------------------------------------------------------
(* C2 *)

\* C2: tryWritePng is called only once the whole composite is on disk;
\* however it ends, the file on disk is that composite, the function has
\* returned and the process does not end with a non-zero code.
C2_RasterExportNeverAborts ==
    /\ (pc = "png" \/ pngOutcome # "none") =>
           /\ ci > Len(categories)
           /\ svgFile = output(chunks, y)
    /\ pngOutcome # "none" =>
           /\ pc \in {"returned", "exited"}
           /\ exitCode = 0

\* The conversion threw and the process ended with code 0.
C2_Witness ==
    /\ pngOutcome = "threw"
    /\ pc = "exited"
    /\ exitCode = 0
    /\ svgFile.exists
    /\ Len(svgFile.chunks) >= 2

-----------------------------------------------------------------------------
(* C4 *)

ExpectedChunkCount == Cardinality(CategoryNames) + ExpectedBlocks(CategoryNames)

\* C4: a read or write that throws ends the run with a non-zero code, with
\* nothing written to the catalog and no raster export; every other run ends
\* with code 0; the catalog on disk is always the whole document.
C4_FatalErrorsAndSingleWrite ==
    /\ err # "none" =>
           /\ svgFile = NoFile
           /\ pngOutcome = "none"
           /\ pngFile = NoFile
    /\ pc = "exited" =>
           /\ err # "none" => exitCode = 1
           /\ err = "none" => exitCode = 0
    /\ svgFile.exists =>
           /\ ci > Len(categories)
           /\ svgFile = output(chunks, y)
           /\ Len(svgFile.chunks) = ExpectedChunkCount

\* A fragment could not be read after some chunks had been built.
C4_Witness ==
    /\ pc = "exited"
    /\ exitCode = 1
    /\ err = "file"
    /\ Len(chunks) >= 3
    /\ svgFile = NoFile

-----------------------------------------------------------------------------
(* C7 *)

\* C7 as stated: neither dimension of the raster exceeds the maximum.
C7_RasterWithinMaximum ==
    pngFile.exists => pngFile.width <= pngWidth /\ pngFile.height <= pngWidth

\* C7 amended: the raster is exactly the maximum wide and its height follows
\* in proportion (to the nearest pixel), so the height stays within the
\* maximum only when the composite is no taller than it is wide.
C7_RasterWidthFixedAspectKept ==
    pngFile.exists =>
        /\ pngFile.width = pngWidth
        /\ 2 * Abs(pngFile.height * svgFile.width - svgFile.height * pngFile.width)
               <= svgFile.width
        /\ svgFile.height <= svgFile.width => pngFile.height <= pngWidth

\* A composite taller than wide was exported.
C7_Witness ==
    /\ pngFile.exists
    /\ svgFile.height > svgFile.width
    /\ pngFile.height > pngWidth

-----------------------------------------------------------------------------
(* C10 *)

\* C10: the declared width and height are those of the viewBox, whose origin
\* is 0 0; the width is cols x column pitch + 2 x padding; the height is the
\* final cursor plus padding, the cursor starting at the padding and each
\* category adding the title row, its rows and the gap.
C10_CanvasSize ==
    /\ pc = "category" =>
           y = padding + ExpectedAdvance({categories[k] : k \in 1..(ci - 1)})
    /\ svgFile.exists =>
           /\ svgFile.viewBox = <<0, 0, svgFile.width, svgFile.height>>
           /\ svgFile.width = cols * colWidth + 2 * padding
           /\ svgFile.height = y + padding
           /\ svgFile.height = padding + ExpectedAdvance(CategoryNames) + padding

\* Two categories or more, one of them with more than one row.
C10_Witness ==
    /\ svgFile.exists
    /\ Cardinality(CategoryNames) >= 2
    /\ \E c \in CategoryNames : Cardinality(FragmentsOf(c)) > cols
    /\ \E c \in CategoryNames : Cardinality(FragmentsOf(c)) \in 1..cols

-----------------------------------------------------------------------------
(* C5 *)

id_a2 == <<"a", "2">>
id_a10 == <<"a", "1", "0">>

\* C5: chunks come in scan order.  Categories never go back in name order;
\* a category has one title, and a block directly follows the title or a
\* block of its own category; the blocks of a category are in natural order
\* (a2 before a10); and the written document holds one title per directory
\* that is not hidden and one block per .svg file of each.
C5_ChunksInScanOrder ==
    /\ \A i, j \in 1..Len(chunks) :
           i < j => ~codeUnitLess(chunks[j].cat, chunks[i].cat)
    /\ \A i, j \in TitleIndices : chunks[i].cat = chunks[j].cat => i = j
    /\ \A j \in BlockIndices : j > 1 /\ chunks[j - 1].cat = chunks[j].cat
    /\ \A i, j \in BlockIndices :
           (i < j /\ chunks[i].cat = chunks[j].cat) =>
               /\ localeCompareNumeric(chunks[i].id, chunks[j].id) < 0
               /\ ~(chunks[i].id = id_a10 /\ chunks[j].id = id_a2)
    /\ svgFile.exists =>
           /\ svgFile.chunks = chunks
           /\ {chunks[i].cat : i \in TitleIndices} = CategoryNames
           /\ \A c \in CategoryNames :
                  /\ {chunks[i].id : i \in {b \in BlockIndices : chunks[b].cat = c}}
                         = {basename(f) : f \in FragmentsOf(c)}
                  /\ Cardinality({b \in BlockIndices : chunks[b].cat = c})
                         = Cardinality(FragmentsOf(c))

\* Both categories listed out of order, a10.svg listed before a2.svg, and the
\* document written with a2 directly before a10.
C5_Witness ==
    /\ svgFile.exists
    /\ Len(rootDir) >= 2
    /\ rootDir[1].name = name_m
    /\ name_e \in CategoryNames
    /\ \E c \in CategoryNames :
        /\ dirs[c] = <<fragmentName(10), fragmentName(2)>>
        /\ \E i \in BlockIndices :
            /\ i < Len(chunks)
            /\ chunks[i].cat = c
            /\ chunks[i].id = id_a2
            /\ chunks[i + 1].cat = c
            /\ chunks[i + 1].id = id_a10

-----------------------------------------------------------------------------
(* The pure functions, each applied to inputs drawn from a bounded set.    *)
(* main() does not run in these specifications.                            *)

mainIdle ==
    /\ pc = "idle"
    /\ rootDir = <<>>
    /\ dirs = <<>>
    /\ categories = <<>>
    /\ ci = 0
    /\ files = <<>>
    /\ idx = 0
    /\ y = 0
    /\ chunks = <<>>
    /\ svgFile = NoFile
    /\ pngFile = NoFile
    /\ pngOutcome = "none"
    /\ err = "none"
    /\ exitCode = 0

-----------------------------------------------------------------------------
(* extractViewBox *)

AttrChars == {"1", " ", ",", "a"}

InitViewBox ==
    /\ mainIdle
    /\ res = <<>>
    /\ \/ arg = [present |-> FALSE, value |-> <<>>]
       \/ \E v \in SeqsUpTo(AttrChars, MaxAttrLen) : arg = [present |-> TRUE, value |-> v]

ExtractViewBoxCall ==
    /\ res = <<>>
    /\ res' = <<extractViewBox(arg)>>
    /\ UNCHANGED <<mainVars, arg>>

SpecViewBox == InitViewBox /\ [][ExtractViewBoxCall]_vars

\* Four numbers separated by white space and nothing else.
IsFourNumbers(v) ==
    /\ v # <<>>
    /\ \A i \in 1..Len(v) : IsDigit(v[i]) \/ IsSpace(v[i])
    /\ IsDigit(v[1])
    /\ IsDigit(v[Len(v)])
    /\ Cardinality({i \in 1..Len(v) : IsDigit(v[i]) /\ (i = 1 \/ IsSpace(v[i - 1]))}) = 4

\* C3: extractViewBox returns the four numbers of a well-formed attribute,
\* the default box when the attribute is absent or unparsable, and never a
\* box with a component that is missing or not a number.
C3_ViewBoxParsedOrDefault ==
    res # <<>> =>
        /\ \A f \in {"minX", "minY", "width", "height"} : res[1][f].k = "num"
        /\ (~arg.present \/ ~IsFourNumbers(arg.value)) => res[1] = defaultViewBox
        /\ (arg.present /\ IsFourNumbers(arg.value)) =>
               <<res[1].minX, res[1].minY, res[1].width, res[1].height>>
                   = [i \in 1..4 |-> parseFloat(splitWhitespace(arg.value, <<>>)[i])]

-----------------------------------------------------------------------------
(* The sanitizing pipeline *)

InitSanitize ==
    /\ mainIdle
    /\ res = <<>>
    /\ arg \in SeqsUpTo(Tokens, MaxTokens)

\* The pipeline applied to the fragment, then to its own output.
SanitizeCall ==
    /\ Len(res) < 2
    /\ res' = Append(res, innerMarkup(IF res = <<>> THEN arg ELSE res[Len(res)]))
    /\ UNCHANGED <<mainVars, arg>>

SpecSanitize == InitSanitize /\ [][SanitizeCall]_vars

\* C6: the pipeline applied to its own output gives that output.
C6_SanitizeIdempotent == Len(res) = 2 => res[2] = res[1]

-----------------------------------------------------------------------------
(* The fit transform *)

Dims == (1..MaxDim) \cup {41, 50, 52, 100, 200, 400, 600}

InitFit ==
    /\ mainIdle
    /\ res = <<>>
    /\ \E minX, minY \in (-MaxOff)..MaxOff, w, h \in Dims :
        arg = [minX |-> Num(minX), minY |-> Num(minY), width |-> Num(w), height |-> Num(h)]

FitCall ==
    /\ res = <<>>
    /\ res' = <<fitTransform(arg)>>
    /\ UNCHANGED <<mainVars, arg>>

SpecFit == InitFit /\ [][FitCall]_vars

\* C9: the scaled view box fits the inner area and touches it in the limiting
\* dimension (so the scale is min(W/w, H/h)); its left and right margins are
\* equal, and so are its top and bottom margins, minX and minY cancelled.
C9_FitAndCentre ==
    res # <<>> =>
        LET t == res[1]
            W == ratInt(innerW)
            H == ratInt(innerH)
            w == ratMul(ratInt(arg.width.v), t.scale)
            h == ratMul(ratInt(arg.height.v), t.scale)
            left == ratSub(ratAdd(t.tx, ratMul(ratInt(arg.minX.v), t.scale)), ratInt(8))
            top == ratSub(ratAdd(t.ty, ratMul(ratInt(arg.minY.v), t.scale)), ratInt(8))
            right == ratSub(W, ratAdd(left, w))
            bottom == ratSub(H, ratAdd(top, h))
        IN  /\ ratLe(w, W)
            /\ ratLe(h, H)
            /\ w = W \/ h = H
            /\ t.scale \in {ratDiv(W, ratInt(arg.width.v)), ratDiv(H, ratInt(arg.height.v))}
            /\ left = right
            /\ top = bottom
            /\ ratLe(ratInt(0), left)
            /\ ratLe(ratInt(0), top)

\* A wide view box with an offset origin: the width limits the scale and the
\* box is centred vertically with a margin.
C9_Witness ==
    /\ res # <<>>
    /\ arg.minX.v < 0
    /\ arg.minY.v > 0
    /\ arg.width.v * innerH > arg.height.v * innerW
    /\ res[1].scale = ratDiv(ratInt(innerW), ratInt(arg.width.v))
    /\ res[1].scale.d > 1

-----------------------------------------------------------------------------
(* replaceFeatureIds.  Objects live in a heap, address -> object; a face   *)
(* maps each of its keys to a number, to null or to the address of a       *)
(* feature object.                                                         *)

Keys == <<"hair", "eye", "fatness">>

KeySet == Range(Keys)

\* The address of the input face's object under a key.
addressOf(key) == CHOOSE i \in 1..Len(Keys) : Keys[i] = key

Ref(a) == [k |-> "ref", a |-> a]
Prim == [k |-> "number", a |-> 0]
Null == [k |-> "null", a |-> 0]

\* deepCopy of utils: every object reached from the face is copied to a
\* fresh address, and the copy refers to the copies.
deepCopy(heap, face) ==
    LET fresh(a) == a + Len(Keys)
        refs == {face[f].a : f \in {g \in DOMAIN face : face[g].k = "ref"}}
    IN  [heap |-> [a \in DOMAIN heap \cup {fresh(b) : b \in refs} |->
                      IF a \in DOMAIN heap THEN heap[a] ELSE heap[a - Len(Keys)]],
         face |-> [f \in DOMAIN face |->
                      IF face[f].k = "ref" THEN Ref(fresh(face[f].a)) ELSE face[f]]]

\* The loop of replaceFeatureIds over Object.entries(replacements), writing
\* through next into heap h.
assignIds(h, next, replacements) ==
    LET hit(a) == {f \in DOMAIN replacements :
                      /\ replacements[f] # ""
                      /\ f \in DOMAIN next
                      /\ next[f] = Ref(a)}
    IN  [a \in DOMAIN h |->
            IF hit(a) = {} THEN h[a]
            ELSE [h[a] EXCEPT !.id = replacements[CHOOSE f \in hit(a) : TRUE]]]

replaceFeatureIdsInPlace(heap, face, replacements) ==
    [heap |-> assignIds(heap, face, replacements), ret |-> face]

replaceFeatureIds(heap, face, replacements) ==
    LET copy == deepCopy(heap, face)
    IN  [heap |-> assignIds(copy.heap, copy.face, replacements), ret |-> copy.face]

PartialMaps(D, R) == UNION {[K -> R] : K \in SUBSET D}

ObjectIds == {"o1", "r1"}
NewIds == {"", "r1"}

InitFeatureIds ==
    /\ mainIdle
    /\ res = <<>>
    /\ \E shape \in PartialMaps(KeySet, {"number", "null"} \cup ObjectIds),
          replacements \in PartialMaps(KeySet, NewIds) :
        arg = [heap |-> [a \in {addressOf(f) : f \in {g \in DOMAIN shape : shape[g] \in ObjectIds}} |->
                            [id |-> shape[Keys[a]], color |-> "red"]],
               face |-> [f \in DOMAIN shape |->
                            IF shape[f] \in ObjectIds THEN Ref(addressOf(f))
                            ELSE IF shape[f] = "null" THEN Null ELSE Prim],
               replacements |-> replacements]

ReplaceFeatureIdsCall ==
    /\ res = <<>>
    /\ res' = <<replaceFeatureIds(arg.heap, arg.face, arg.replacements)>>
    /\ UNCHANGED <<mainVars, arg>>

SpecFeatureIds == InitFeatureIds /\ [][ReplaceFeatureIdsCall]_vars

\* The value a face holds under a key, its object read from heap h.
ValueIn(h, v) == IF v.k = "ref" THEN <<"object", h[v.a]>> ELSE <<v.k>>

\* C8: the call leaves every object of the input face as it was and returns
\* a face on fresh objects with the same keys, equal to the input except
\* that an object under a key with a non-empty replacement has that id.
C8_ReplaceFeatureIdsCopies ==
    res # <<>> =>
        LET after == res[1].heap
            ret == res[1].ret
            replaced(f) == /\ f \in DOMAIN arg.replacements
                           /\ arg.replacements[f] # ""
                           /\ arg.face[f].k = "ref"
        IN  /\ \A a \in DOMAIN arg.heap : a \in DOMAIN after /\ after[a] = arg.heap[a]
            /\ DOMAIN ret = DOMAIN arg.face
            /\ \A f \in DOMAIN ret :
                   /\ ret[f].k = "ref" => ret[f].a \notin DOMAIN arg.heap
                   /\ ValueIn(after, ret[f]) =
                          IF replaced(f)
                          THEN <<"object", [arg.heap[arg.face[f].a] EXCEPT
                                               !.id = arg.replacements[f]]>>
                          ELSE ValueIn(arg.heap, arg.face[f])

\* One feature's id replaced by a new one, one replacement empty, one
\* replacement for a key the face lacks or holds no object under.
C8_Witness ==
    /\ res # <<>>
    /\ \E f \in DOMAIN arg.face :
        /\ arg.face[f].k = "ref"
        /\ f \in DOMAIN arg.replacements
        /\ arg.replacements[f] = "r1"
        /\ arg.heap[arg.face[f].a].id = "o1"
        /\ res[1].heap[res[1].ret[f].a].id = "r1"
    /\ \E f \in DOMAIN arg.replacements :
        /\ arg.replacements[f] = ""
        /\ f \in DOMAIN arg.face
        /\ arg.face[f].k = "ref"
    /\ \E f \in DOMAIN arg.replacements :
        /\ arg.replacements[f] = "r1"
        /\ (f \notin DOMAIN arg.face \/ arg.face[f].k # "ref")

=============================================================================
